---- MODULE Spec2Model ----
(***************************************************************************)
(* Model of app.py (MazoMate): the pipeline of main() that turns the text  *)
(* returned by generate_interview_questions into question/answer pairs and *)
(* hands them to export_to_excel and export_to_word.                       *)
(*                                                                         *)
(* A Python str is a sequence of one-character strings; a dict            *)
(* {"Question": q, "Answer": a} is a record; a list is a sequence.         *)
(* List indices are 0-based in the code and 1-based here: Index does the   *)
(* shift.                                                                  *)
(***************************************************************************)
EXTENDS Naturals, Sequences, FiniteSets

VARIABLES
    pc,                 \* position of main(): which statement runs next
    response,           \* what chat_session.send_message returns (or that it raised)
    generated_content,  \* main: generated_content
    lines,              \* main: lines
    i,                  \* main: loop variable i of the pairing loop
    qa_pairs,           \* main: qa_pairs, the list handed to both exporters
    excel_file,         \* main: excel_file
    word_file,          \* main: word_file
    downloads,          \* st.download_button calls made, in order
    errors,             \* st.error calls made, in order
    uncaught,           \* exception that left a function uncaught ("none" if none)
    visited,            \* values i took in the pairing loop, in order
    calls,              \* exporters called so far, in order
    xfault,             \* step of export_to_excel that raises ("none" if none)
    wfault,             \* step of export_to_word that raises ("none" if none)
    data0               \* the list as it was when the first exporter was called

vars == <<pc, response, generated_content, lines, i, qa_pairs, excel_file,
          word_file, downloads, errors, uncaught, visited, calls, xfault,
          wfault, data0>>

-----------------------------------------------------------------------------
(* Bounds *)

MaxLen == 4         \* longest text the provider returns
MaxTextLen == 5     \* longest text handed directly to the pairing code
MaxRecords == 2     \* longest list handed directly to an exporter

-----------------------------------------------------------------------------
(* Strings *)

NL == "\n"
Chars == {"Q", "A", " ", NL}
Whitespace == {" ", NL}

TextsUpTo(m) == UNION {[1..n -> Chars] : n \in 0..m}
Texts == TextsUpTo(MaxLen)

\* A field of a record handed directly to an exporter.
Fields == {<<>>, <<"Q">>, <<"A">>}

\* str.strip(): drop leading and trailing whitespace.
RECURSIVE lstrip(_)
lstrip(s) ==
    IF s = <<>> THEN <<>>
    ELSE IF Head(s) \in Whitespace THEN lstrip(Tail(s))
    ELSE s

RECURSIVE rstrip(_)
rstrip(s) ==
    IF s = <<>> THEN <<>>
    ELSE IF s[Len(s)] \in Whitespace THEN rstrip(SubSeq(s, 1, Len(s) - 1))
    ELSE s

strip(s) == rstrip(lstrip(s))

\* Position of the first newline of s, 0 if there is none.
RECURSIVE FindNL(_, _)
FindNL(s, k) ==
    IF k > Len(s) THEN 0
    ELSE IF s[k] = NL THEN k
    ELSE FindNL(s, k + 1)

\* A split that drops empty lines (what str.split() without argument, or a
\* filter on the lines, would do).
RECURSIVE split_dropping_blank(_)
split_dropping_blank(s) ==
    LET k == FindNL(s, 1) IN
    IF k = 0 THEN (IF s = <<>> THEN <<>> ELSE <<s>>)
    ELSE (IF k = 1 THEN <<>> ELSE <<SubSeq(s, 1, k - 1)>>)
         \o split_dropping_blank(SubSeq(s, k + 1, Len(s)))

\* str.split('\n'): every newline ends a line, no line is dropped, and the
\* empty string splits into one empty line.
RECURSIVE split(_)
split(s) ==
    LET k == FindNL(s, 1) IN
    IF k = 0 THEN <<s>>
    ELSE <<SubSeq(s, 1, k - 1)>> \o split(SubSeq(s, k + 1, Len(s)))

\* lines[k] of the code (0-based); IndexError when k is out of range.
IndexError == <<"IndexError">>
Index(l, k) == IF k < Len(l) THEN l[k + 1] ELSE IndexError

-----------------------------------------------------------------------------
(* generate_interview_questions *)

ProviderFailure == <<"Exception">>
Responses == Texts \cup {ProviderFailure}

\* The same function returning response.text without .strip().
generate_unstripped(resp) ==
    IF resp = ProviderFailure
    THEN [ret |-> <<>>, errors |-> <<[msg |-> "Error fetching questions", cause |-> "Exception"]>>]
    ELSE [ret |-> resp, errors |-> <<>>]

generate_interview_questions(resp) ==
    IF resp = ProviderFailure
    THEN [ret |-> <<>>, errors |-> <<[msg |-> "Error fetching questions", cause |-> "Exception"]>>]
    ELSE [ret |-> strip(resp), errors |-> <<>>]

-----------------------------------------------------------------------------
(* Exporters.  An exporter call returns ret (the value returned), errors    *)
(* (its st.error calls), raised (the exception that left it, "none" if it  *)
(* returned) and data (the list argument as the call left it).  The fault  *)
(* argument names the step of the body that raises an Exception.           *)

FaultSteps == {"build", "write", "save"}
Faults == {"none"} \cup FaultSteps

None == [kind |-> "None"]

\* pd.DataFrame(list of dicts): the columns are the keys of the dicts, in
\* order of appearance, so an empty list gives a frame with no columns.
DataFrame(data) ==
    [columns |-> IF data = <<>> THEN <<>> ELSE <<"Question", "Answer">>,
     rows    |-> [k \in 1..Len(data) |-> <<data[k].Question, data[k].Answer>>]]

\* df.to_excel(writer, index=False, sheet_name=...): one sheet, the header
\* row is the frame's columns, one row per frame row.
to_excel(df, index, sheet_name) ==
    [name |-> sheet_name, index_column |-> index,
     header |-> df.columns, rows |-> df.rows]

ExcelArtifact(data) ==
    [kind |-> "BytesIO", format |-> "xlsx",
     body |-> <<to_excel(DataFrame(data), FALSE, "Interview Questions")>>]

ExcelError(cause) == [msg |-> "Error exporting to Excel", cause |-> cause]
WordError(cause) == [msg |-> "Error exporting to Word", cause |-> cause]

\* export_to_excel with an except clause that returns None without st.error.
export_to_excel_silent(data, fault) ==
    IF fault = "none"
    THEN [ret |-> ExcelArtifact(data), errors |-> <<>>, raised |-> "none", data |-> data]
    ELSE [ret |-> None, errors |-> <<>>, raised |-> "none", data |-> data]

export_to_excel(data, fault) ==
    IF fault = "none"
    THEN [ret |-> ExcelArtifact(data), errors |-> <<>>, raised |-> "none", data |-> data]
    ELSE \* raised inside the try block: the except clause reports and returns None
         [ret |-> None, errors |-> <<ExcelError(fault)>>, raised |-> "none", data |-> data]

\* The text of the title heading, held as a one-token string.
Title == <<"Interview Questions and Answers">>

add_heading(text, level) == [kind |-> "heading", level |-> level, text |-> text]
add_paragraph(text) == [kind |-> "paragraph", level |-> 0, text |-> text]

\* The loop with a test that skips a record whose question is empty.
RECURSIVE add_records_skipping_empty(_, _)
add_records_skipping_empty(doc, data) ==
    IF data = <<>> THEN doc
    ELSE IF Head(data).Question = <<>> THEN add_records_skipping_empty(doc, Tail(data))
    ELSE add_records_skipping_empty(
             doc \o <<add_heading(Head(data).Question, 1), add_paragraph(Head(data).Answer)>>,
             Tail(data))

\* for qa in data: doc.add_heading(qa['Question'], level=1); doc.add_paragraph(qa['Answer'])
RECURSIVE add_records(_, _)
add_records(doc, data) ==
    IF data = <<>> THEN doc
    ELSE add_records(
             doc \o <<add_heading(Head(data).Question, 1), add_paragraph(Head(data).Answer)>>,
             Tail(data))

WordArtifact(data) ==
    [kind |-> "BytesIO", format |-> "docx",
     body |-> add_records(<<add_heading(Title, 0)>>, data)]

\* export_to_word with doc.save(output) moved after the try block.
export_to_word_save_outside_try(data, fault) ==
    IF fault = "none"
    THEN [ret |-> WordArtifact(data), errors |-> <<>>, raised |-> "none", data |-> data]
    ELSE IF fault = "save"
    THEN [ret |-> None, errors |-> <<>>, raised |-> "Exception", data |-> data]
    ELSE [ret |-> None, errors |-> <<WordError(fault)>>, raised |-> "none", data |-> data]

\* export_to_word consuming its argument (data.pop(0) in place of iteration).
export_to_word_consuming(data, fault) ==
    IF fault = "none"
    THEN [ret |-> WordArtifact(data), errors |-> <<>>, raised |-> "none", data |-> <<>>]
    ELSE [ret |-> None, errors |-> <<WordError(fault)>>, raised |-> "none",
          data |-> IF fault = "build" THEN data ELSE <<>>]

export_to_word(data, fault) ==
    IF fault = "none"
    THEN [ret |-> WordArtifact(data), errors |-> <<>>, raised |-> "none", data |-> data]
    ELSE \* raised inside the try block: the except clause reports and returns None
         [ret |-> None, errors |-> <<WordError(fault)>>, raised |-> "none", data |-> data]

ExcelDownload(file) ==
    [label |-> "Download Interview Questions Excel", data |-> file,
     file_name |-> "Mazo_Interview_Question_Answer.xlsx"]
WordDownload(file) ==
    [label |-> "Download Interview Questions Word", data |-> file,
     file_name |-> "Mazo_Interview_Question_Answer.docx"]

-----------------------------------------------------------------------------
(* main(), from the call of generate_interview_questions on.  The two      *)
(* st.markdown(...) "buttons" return a truthy element object, so both      *)
(* export blocks run on every pass through main.                           *)

Record(q, a) == [Question |-> q, Answer |-> a]

Init ==
    /\ pc = "generate"
    /\ response \in Responses
    /\ xfault \in Faults
    /\ wfault \in Faults
    /\ generated_content = <<>>
    /\ lines = <<>>
    /\ i = 0
    /\ qa_pairs = <<>>
    /\ excel_file = None
    /\ word_file = None
    /\ downloads = <<>>
    /\ errors = <<>>
    /\ uncaught = "none"
    /\ visited = <<>>
    /\ calls = <<>>
    /\ data0 = <<>>

\* generated_content = generate_interview_questions(domain, experience_level, complexity)
Generate ==
    /\ pc = "generate"
    /\ LET r == generate_interview_questions(response) IN
         /\ generated_content' = r.ret
         /\ errors' = errors \o r.errors
    /\ pc' = "content_guard"
    /\ UNCHANGED <<response, lines, i, qa_pairs, excel_file, word_file, downloads,
                   uncaught, visited, calls, xfault, wfault, data0>>

\* main without the test of generated_content.
ContentGuardMissing ==
    /\ pc = "content_guard"
    /\ pc' = "split"
    /\ UNCHANGED <<response, generated_content, lines, i, qa_pairs, excel_file,
                   word_file, downloads, errors, uncaught, visited, calls, xfault,
                   wfault, data0>>

\* if generated_content:
ContentGuard ==
    /\ pc = "content_guard"
    /\ pc' = IF generated_content # <<>> THEN "split" ELSE "done"
    /\ UNCHANGED <<response, generated_content, lines, i, qa_pairs, excel_file,
                   word_file, downloads, errors, uncaught, visited, calls, xfault,
                   wfault, data0>>

\* The split with empty lines filtered out.
SplitLinesDroppingBlank ==
    /\ pc = "split"
    /\ qa_pairs' = <<>>
    /\ lines' = split_dropping_blank(generated_content)
    /\ i' = 0
    /\ pc' = "loop"
    /\ UNCHANGED <<response, generated_content, excel_file, word_file, downloads,
                   errors, uncaught, visited, calls, xfault, wfault, data0>>

\* qa_pairs = []; lines = generated_content.split('\n'); first value of range(0, len(lines), 2)
SplitLines ==
    /\ pc = "split"
    /\ qa_pairs' = <<>>
    /\ lines' = split(generated_content)
    /\ i' = 0
    /\ pc' = "loop"
    /\ UNCHANGED <<response, generated_content, excel_file, word_file, downloads,
                   errors, uncaught, visited, calls, xfault, wfault, data0>>

\* The loop body with the answer's test written (i + 1) <= len(lines).
LoopBodyOffByOne ==
    /\ pc = "loop"
    /\ i < Len(lines)
    /\ LET question == IF i < Len(lines) THEN Index(lines, i) ELSE <<>>
           answer   == IF (i + 1) <= Len(lines) THEN Index(lines, i + 1) ELSE <<>>
       IN IF question = IndexError \/ answer = IndexError
          THEN /\ uncaught' = "IndexError"
               /\ pc' = "crashed"
               /\ UNCHANGED qa_pairs
          ELSE /\ qa_pairs' = Append(qa_pairs, Record(strip(question), strip(answer)))
               /\ UNCHANGED <<uncaught, pc>>
    /\ visited' = Append(visited, i)
    /\ i' = i + 2
    /\ UNCHANGED <<response, generated_content, lines, excel_file, word_file,
                   downloads, errors, calls, xfault, wfault, data0>>

\* One pass of: for i in range(0, len(lines), 2): question = ...; answer = ...;
\* qa_pairs.append({"Question": question, "Answer": answer})
LoopBody ==
    /\ pc = "loop"
    /\ i < Len(lines)
    /\ LET question == IF i < Len(lines) THEN Index(lines, i) ELSE <<>>
           answer   == IF (i + 1) < Len(lines) THEN Index(lines, i + 1) ELSE <<>>
       IN IF question = IndexError \/ answer = IndexError
          THEN /\ uncaught' = "IndexError"
               /\ pc' = "crashed"
               /\ UNCHANGED qa_pairs
          ELSE /\ qa_pairs' = Append(qa_pairs, Record(strip(question), strip(answer)))
               /\ UNCHANGED <<uncaught, pc>>
    /\ visited' = Append(visited, i)
    /\ i' = i + 2
    /\ UNCHANGED <<response, generated_content, lines, excel_file, word_file,
                   downloads, errors, calls, xfault, wfault, data0>>

\* range(0, len(lines), 2) is exhausted; if qa_pairs:
LoopExit ==
    /\ pc = "loop"
    /\ i >= Len(lines)
    /\ pc' = IF qa_pairs # <<>> THEN "excel" ELSE "done"
    /\ UNCHANGED <<response, generated_content, lines, i, qa_pairs, excel_file,
                   word_file, downloads, errors, uncaught, visited, calls, xfault,
                   wfault, data0>>

\* excel_file = export_to_excel(qa_pairs); if excel_file: st.download_button(...)
MainExcel ==
    /\ pc = "excel"
    /\ LET r == export_to_excel(qa_pairs, xfault) IN
         /\ qa_pairs' = r.data
         /\ errors' = errors \o r.errors
         /\ uncaught' = r.raised
         /\ IF r.raised # "none"
            THEN /\ pc' = "crashed"
                 /\ UNCHANGED <<excel_file, downloads>>
            ELSE /\ pc' = "word"
                 /\ excel_file' = r.ret
                 /\ downloads' = IF r.ret # None
                                 THEN Append(downloads, ExcelDownload(r.ret))
                                 ELSE downloads
    /\ calls' = Append(calls, "excel")
    /\ data0' = qa_pairs
    /\ UNCHANGED <<response, generated_content, lines, i, word_file, visited,
                   xfault, wfault>>

\* main with the Word block nested under "if excel_file:".
MainWordOnlyAfterExcel ==
    /\ pc = "word"
    /\ IF excel_file = None
       THEN /\ pc' = "done"
            /\ UNCHANGED <<qa_pairs, errors, uncaught, word_file, downloads, calls>>
       ELSE LET r == export_to_word(qa_pairs, wfault) IN
            /\ qa_pairs' = r.data
            /\ errors' = errors \o r.errors
            /\ uncaught' = r.raised
            /\ calls' = Append(calls, "word")
            /\ IF r.raised # "none"
               THEN /\ pc' = "crashed"
                    /\ UNCHANGED <<word_file, downloads>>
               ELSE /\ pc' = "done"
                    /\ word_file' = r.ret
                    /\ downloads' = IF r.ret # None
                                    THEN Append(downloads, WordDownload(r.ret))
                                    ELSE downloads
    /\ UNCHANGED <<response, generated_content, lines, i, excel_file, visited,
                   xfault, wfault, data0>>

\* word_file = export_to_word(qa_pairs); if word_file: st.download_button(...)
MainWord ==
    /\ pc = "word"
    /\ LET r == export_to_word(qa_pairs, wfault) IN
         /\ qa_pairs' = r.data
         /\ errors' = errors \o r.errors
         /\ uncaught' = r.raised
         /\ IF r.raised # "none"
            THEN /\ pc' = "crashed"
                 /\ UNCHANGED <<word_file, downloads>>
            ELSE /\ pc' = "done"
                 /\ word_file' = r.ret
                 /\ downloads' = IF r.ret # None
                                 THEN Append(downloads, WordDownload(r.ret))
                                 ELSE downloads
    /\ calls' = Append(calls, "word")
    /\ UNCHANGED <<response, generated_content, lines, i, excel_file, visited,
                   xfault, wfault, data0>>

Next ==
    \/ Generate
    \/ ContentGuard
    \/ SplitLines
    \/ LoopBody
    \/ LoopExit
    \/ MainExcel
    \/ MainWord

Spec == Init /\ [][Next]_vars

-----------------------------------------------------------------------------
(* The pairing code of main applied to any text: the statements from       *)
(* qa_pairs = [] to the end of the loop, entered with generated_content    *)
(* drawn from all texts.                                                   *)

SegInit ==
    /\ pc = "split"
    /\ response = <<>>
    /\ generated_content \in TextsUpTo(MaxTextLen)
    /\ xfault = "none"
    /\ wfault = "none"
    /\ lines = <<>>
    /\ i = 0
    /\ qa_pairs = <<>>
    /\ excel_file = None
    /\ word_file = None
    /\ downloads = <<>>
    /\ errors = <<>>
    /\ uncaught = "none"
    /\ visited = <<>>
    /\ calls = <<>>
    /\ data0 = <<>>

SegNext ==
    \/ SplitLines
    \/ LoopBody
    \/ LoopExit

SegSpec == SegInit /\ [][SegNext]_vars

-----------------------------------------------------------------------------
(* The exporters applied to any list of records, in either order.          *)

RecordSeqs ==
    UNION {[1..n -> {Record(q, a) : q \in Fields, a \in Fields}] : n \in 0..MaxRecords}

ExportInit ==
    /\ pc = "export"
    /\ response = <<>>
    /\ generated_content = <<>>
    /\ qa_pairs \in RecordSeqs
    /\ data0 = qa_pairs
    /\ xfault \in Faults
    /\ wfault \in Faults
    /\ lines = <<>>
    /\ i = 0
    /\ excel_file = None
    /\ word_file = None
    /\ downloads = <<>>
    /\ errors = <<>>
    /\ uncaught = "none"
    /\ visited = <<>>
    /\ calls = <<>>

\* excel_file = export_to_excel(data)
CallExcel ==
    /\ pc = "export"
    /\ \A k \in 1..Len(calls) : calls[k] # "excel"
    /\ LET r == export_to_excel(qa_pairs, xfault) IN
         /\ qa_pairs' = r.data
         /\ errors' = errors \o r.errors
         /\ uncaught' = r.raised
         /\ IF r.raised # "none"
            THEN pc' = "crashed" /\ UNCHANGED excel_file
            ELSE pc' = pc /\ excel_file' = r.ret
    /\ calls' = Append(calls, "excel")
    /\ UNCHANGED <<response, generated_content, lines, i, word_file, downloads,
                   visited, xfault, wfault, data0>>

\* word_file = export_to_word(data)
CallWord ==
    /\ pc = "export"
    /\ \A k \in 1..Len(calls) : calls[k] # "word"
    /\ LET r == export_to_word(qa_pairs, wfault) IN
         /\ qa_pairs' = r.data
         /\ errors' = errors \o r.errors
         /\ uncaught' = r.raised
         /\ IF r.raised # "none"
            THEN pc' = "crashed" /\ UNCHANGED word_file
            ELSE pc' = pc /\ word_file' = r.ret
    /\ calls' = Append(calls, "word")
    /\ UNCHANGED <<response, generated_content, lines, i, excel_file, downloads,
                   visited, xfault, wfault, data0>>

ExportNext ==
    \/ CallExcel
    \/ CallWord

ExportSpec == ExportInit /\ [][ExportNext]_vars

-----------------------------------------------------------------------------
(* Properties *)

Called(name) == \E k \in 1..Len(calls) : calls[k] = name

NewlineCount(s) == Cardinality({k \in 1..Len(s) : s[k] = NL})

\* The lines joined again with a newline between consecutive lines.
RECURSIVE Join(_)
Join(l) ==
    IF l = <<>> THEN <<>>
    ELSE IF Len(l) = 1 THEN l[1]
    ELSE l[1] \o <<NL>> \o Join(Tail(l))

LoopDone == pc \in {"excel", "word", "done"} /\ lines # <<>>

\* C1: for a non-empty text whose split on newlines has L lines (one more
\* than it has newlines, no line dropped), the loop ends with ceil(L/2)
\* records in order; record j has question strip(line 2j) and answer
\* strip(line 2j+1) if that line exists, the empty string otherwise.
C1_PairsFromLines ==
    (LoopDone /\ generated_content # <<>>) =>
        LET L == Len(lines)
            n == Len(qa_pairs)
        IN /\ L = NewlineCount(generated_content) + 1
           /\ Join(lines) = generated_content
           /\ n = (L + 1) \div 2
           /\ \A j \in 0..(n - 1) :
                /\ qa_pairs[j + 1].Question = strip(lines[2 * j + 1])
                /\ qa_pairs[j + 1].Answer =
                       IF 2 * j + 1 < L THEN strip(lines[2 * j + 2]) ELSE <<>>
           /\ (L % 2 = 0 => n * 2 = L)
           /\ (L % 2 = 1 => n * 2 = L + 1 /\ qa_pairs[n].Answer = <<>>)

\* An odd number of lines with a whitespace-only line in the middle.
C1_Witness ==
    /\ LoopDone
    /\ generated_content = <<"Q", NL, " ", NL, "A">>
    /\ qa_pairs = <<Record(<<"Q">>, <<>>), Record(<<"A">>, <<>>)>>

\* C2: when the generated text is the empty string, main produces no record
\* and calls no exporter: no file, no download.
C2_EmptyTextNoRecords ==
    (pc # "generate" /\ generated_content = <<>>) =>
        /\ pc \in {"content_guard", "done"}
        /\ qa_pairs = <<>>
        /\ lines = <<>>
        /\ calls = <<>>
        /\ downloads = <<>>
        /\ excel_file = None
        /\ word_file = None

C2_Witness ==
    /\ pc = "done"
    /\ response = <<>>
    /\ generated_content = <<>>
    /\ qa_pairs = <<>>

\* C3: the pairing loop never reads a line at an index that is not below the
\* line count (no IndexError leaves it), visits the positions 0, 2, 4, ...
\* once each, and ends after ceil(len(lines)/2) passes.
C3_LoopInRange ==
    /\ uncaught = "none"
    /\ pc # "crashed"
    /\ \A k \in 1..Len(visited) :
         /\ visited[k] = 2 * (k - 1)
         /\ visited[k] < Len(lines)
    /\ Len(qa_pairs) = Len(visited)
    /\ (LoopDone => Len(visited) = (Len(lines) + 1) \div 2)

\* An odd number of lines: the last pass has no line i+1.
C3_Witness ==
    /\ LoopDone
    /\ Len(lines) = 3
    /\ visited = <<0, 2>>
    /\ uncaught = "none"

C5_DocumentElements ==
    (Called("word") /\ wfault = "none") =>
        /\ word_file.kind = "BytesIO"
        /\ LET body == word_file.body
               k == Len(data0)
           IN /\ Len(body) = 1 + 2 * k
              /\ body[1] = [kind |-> "heading", level |-> 0, text |-> Title]
              /\ \A j \in 1..k :
                   /\ body[2 * j] =
                          [kind |-> "heading", level |-> 1, text |-> data0[j].Question]
                   /\ body[2 * j + 1] =
                          [kind |-> "paragraph", level |-> 0, text |-> data0[j].Answer]

\* A record with both fields empty, followed by another record.
C5_Witness ==
    /\ Called("word")
    /\ wfault = "none"
    /\ Len(data0) = 2
    /\ data0[1] = Record(<<>>, <<>>)
    /\ Len(word_file.body) = 5

\* C6: an Exception raised at any step of an exporter does not leave it: the
\* exporter returns None, and every call ends by returning an artifact or
\* None.
C6_NoFaultEscapes ==
    /\ uncaught = "none"
    /\ pc # "crashed"
    /\ (Called("excel") => (IF xfault = "none" THEN excel_file.kind = "BytesIO"
                            ELSE excel_file = None))
    /\ (Called("word") => (IF wfault = "none" THEN word_file.kind = "BytesIO"
                           ELSE word_file = None))

C6_Witness ==
    /\ Called("excel")
    /\ Called("word")
    /\ xfault = "build"
    /\ wfault = "save"
    /\ excel_file = None
    /\ word_file = None
    /\ uncaught = "none"

NamesFormatAndCause(v, cause) ==
    /\ "format" \in DOMAIN v
    /\ "cause" \in DOMAIN v
    /\ v.cause = cause

\* C7 as stated: the value a failed export returns names the failing format
\* and the cause.
C7_FailureValueNamesFormatAndCause ==
    /\ ((Called("excel") /\ xfault # "none") => NamesFormatAndCause(excel_file, xfault))
    /\ ((Called("word") /\ wfault # "none") => NamesFormatAndCause(word_file, wfault))

\* C7 as amended: a failed export returns None, whatever the format and the
\* cause; the format and the cause are named only in the message passed to
\* st.error.  A successful export returns an artifact and reports nothing.
C7_FailureIsNoneAndReported ==
    /\ (Called("excel") =>
          IF xfault = "none"
          THEN /\ excel_file.kind = "BytesIO"
               /\ \A k \in 1..Len(errors) : errors[k].msg # "Error exporting to Excel"
          ELSE /\ excel_file = None
               /\ \E k \in 1..Len(errors) : errors[k] = ExcelError(xfault))
    /\ (Called("word") =>
          IF wfault = "none"
          THEN /\ word_file.kind = "BytesIO"
               /\ \A k \in 1..Len(errors) : errors[k].msg # "Error exporting to Word"
          ELSE /\ word_file = None
               /\ \E k \in 1..Len(errors) : errors[k] = WordError(wfault))

\* Both exports failed, for different causes, and returned the same value.
C7_Witness ==
    /\ Called("excel")
    /\ Called("word")
    /\ xfault = "write"
    /\ wfault = "save"
    /\ excel_file = word_file
    /\ Len(errors) = 2

\* C8: in main the Word export is attempted whatever the Excel export did,
\* its outcome depends on the records and its own fault only, and an Excel
\* artifact already produced stays offered when the Word export fails.
C8_ExportsIndependent ==
    (pc = "done" /\ lines # <<>>) =>
        /\ calls = <<"excel", "word">>
        /\ word_file = (IF wfault = "none" THEN WordArtifact(data0) ELSE None)
        /\ excel_file = (IF xfault = "none" THEN ExcelArtifact(data0) ELSE None)
        /\ downloads =
             (IF xfault = "none" THEN <<ExcelDownload(excel_file)>> ELSE <<>>)
             \o (IF wfault = "none" THEN <<WordDownload(word_file)>> ELSE <<>>)

\* The Excel export failed and the Word export still produced its file.
C8_Witness ==
    /\ pc = "done"
    /\ xfault # "none"
    /\ wfault = "none"
    /\ excel_file = None
    /\ word_file # None
    /\ downloads = <<WordDownload(word_file)>>

\* C9: the exporters leave the list as it was, in either call order and
\* whether they succeed or fail, so each returns what it returns on the
\* original list.
C9_ListUnchanged ==
    /\ qa_pairs = data0
    /\ (Called("excel") => excel_file = export_to_excel(data0, xfault).ret)
    /\ (Called("word") => word_file = export_to_word(data0, wfault).ret)

\* Word first, then Excel, on a list of two records.
C9_Witness ==
    /\ calls = <<"word", "excel">>
    /\ Len(data0) = 2
    /\ qa_pairs = data0
    /\ excel_file # None
    /\ word_file # None

\* C10: main reaches the pairing code and the exports only with a generated
\* text that is non-empty and stripped; a failed provider call gives the
\* empty string; once the loop is done there is at least one record, the
\* test of qa_pairs passes, and the first question is not empty.
C10_NonEmptyStrippedText ==
    /\ (pc # "generate" /\ response = ProviderFailure => generated_content = <<>>)
    /\ ((pc \in {"split", "loop", "excel", "word", "crashed"} \/ lines # <<>> \/ calls # <<>>) =>
          /\ generated_content # <<>>
          /\ generated_content = strip(generated_content)
          /\ response # ProviderFailure)
    /\ (LoopDone =>
          /\ Len(qa_pairs) >= 1
          /\ qa_pairs[1].Question # <<>>
          /\ (pc = "done" => calls = <<"excel", "word">>))

\* A response with whitespace around the text.
C10_Witness ==
    /\ pc = "done"
    /\ response = <<NL, "Q", NL, " ">>
    /\ qa_pairs = <<Record(<<"Q">>, <<>>)>>
    /\ calls = <<"excel", "word">>

====
